---------------------------- MODULE Spec2Model ----------------------------
(***************************************************************************)
(* A model of angr-management's edge categorisation (utils/cfg.py) and of  *)
(* the function table model (ui/widgets/qfunction_table.py).               *)
(*                                                                         *)
(* Three specifications share the module's variables:                      *)
(*   Spec        categorize_edges on a caller-owned edge list              *)
(*   SpecBranch  _get_branch_instr on a node and a disassembly             *)
(*   SpecTable   QFunctionTableModel: func_list setter, filter, sort       *)
(***************************************************************************)
EXTENDS Integers, Sequences, FiniteSets, TLC

\* ------------------------------------------------------------------ bounds
\* Nodes are basic blocks at addresses 0..MaxAddr.
MaxAddr == 1

\* Instructions sit at addresses 0..MaxInsAddr.
MaxInsAddr == 2

\* The longest list assigned to QFunctionTableModel.func_list.
MaxFuncs == 2

\* ----------------------------------------------------- program constants
\* The group size of a two-way branch: elif len(items) == 2.
TwoWay == 2

\* The longest edge list handed to categorize_edges: long enough for a group
\* larger than a two-way branch, and for a two-way branch beside another group.
MaxLen == TwoWay + 1

VARIABLES
    \* --- categorize_edges
    size,       \* Node.size, immutable after construction
    edges,      \* the caller's edge list, the argument of categorize_edges
    sort,       \* Edge.sort of every edge object
    prev,       \* Edge.sort of every edge object when the last call began
    written,    \* the edges whose sort the last call assigned
    steps,      \* loop iterations the last call ran
    phase,      \* "building" | "once" | "twice": calls since edges changed;
                \* "ready" | "returned" for _get_branch_instr
    \* --- _get_branch_instr
    out_branches,   \* node.out_branches.keys(): its keys in dictionary order
    instructions,   \* disassembly['instructions']: address -> instruction
    \* --- QFunctionTableModel
    _func_list,     \* self._func_list: the filtered list, or None
    _raw_func_list, \* self._raw_func_list
    assigned,       \* the list last assigned to func_list from outside
    kw,             \* the keyword of the filter in force, empty if none
    narrowed,       \* the functions shown when a sort last ran under a filter
                    \* since the last outside assignment, or None
    call,           \* the last call on the model and its arguments
    shown_before,   \* func_list when the last call began
    kw_before,      \* kw when the last call began
    \* --- shared by the operations
    exc,        \* the exception that left the last call, "none" if it returned
    ret,        \* the value the last call returned
    log         \* the records the last call handed to the logger

edgeVars == <<size, edges, sort, prev, written, steps>>

branchVars == <<out_branches, instructions>>

tableVars == <<_func_list, _raw_func_list, assigned, kw, narrowed, call,
               shown_before, kw_before>>

vars == <<edgeVars, branchVars, tableVars, phase, exc, ret, log>>

None == "None"

Range(s) == { s[i] : i \in DOMAIN s }

\* ------------------------------------------------------------ the CFG data
\* A Node is identified by its address.
Node == 0..MaxAddr

addr(n) == n

\* Node.size: a block holds at least one byte.  addr + size ranges over every
\* later node address and one address past the last node; larger sizes all
\* fall through to no node.
NodeSizes == { f \in [Node -> 1..(MaxAddr + 1)] :
                 \A n \in Node : f[n] <= MaxAddr + 1 - n }

\* An Edge object: one per ordered pair of nodes.  The same object may be
\* listed more than once (a duplicate edge).
Edge == Node \X Node

src(e) == e[1]

dst(e) == e[2]

EdgeSort == {"BACK_EDGE", "TRUE_BRANCH", "FALSE_BRANCH"}

\* The sort of an edge no rule has classified.
Unclassified == "UNCLASSIFIED"

\* -------------------------------------------------------- categorize_edges
\* A variant of GroupEdges that keys the groups by edge.dst.
RECURSIVE GroupEdgesByDst(_, _)
GroupEdgesByDst(es, edges_by_node) ==
    IF es = << >> THEN edges_by_node
    ELSE LET edge == Head(es) IN
         GroupEdgesByDst(Tail(es),
                         [edges_by_node EXCEPT ![dst(edge)] = Append(@, edge)])

\* for edge in edges: edges_by_node[edge.src].append(edge)
RECURSIVE GroupEdges(_, _)
GroupEdges(es, edges_by_node) ==
    IF es = << >> THEN edges_by_node
    ELSE LET edge == Head(es) IN
         GroupEdges(Tail(es),
                    [edges_by_node EXCEPT ![src(edge)] = Append(@, edge)])

\* defaultdict(list): a key exists once an edge was appended under it.
EmptyGroups == [n \in Node |-> << >>]

Keys(edges_by_node) == { n \in Node : edges_by_node[n] # << >> }

\* A variant of SetSort that keeps a sort some earlier pass assigned.
SetSortIfUnset(st, edge, v) ==
    IF st.sort[edge] = Unclassified
    THEN [st EXCEPT !.sort[edge] = v, !.written = @ \cup {edge}]
    ELSE st

\* A variant of SetSort that clears a sort when it is assigned a second time.
SetSortToggle(st, edge, v) ==
    [st EXCEPT !.sort[edge] = IF @ = v THEN Unclassified ELSE v,
               !.written = @ \cup {edge}]

\* edge.sort = v
SetSort(st, edge, v) ==
    [st EXCEPT !.sort[edge] = v, !.written = @ \cup {edge}]

\* A variant of ClassifyOne with a strict comparison: a self-loop is no back
\* edge.
ClassifyOneStrict(items, st) ==
    LET edge == items[1] IN
    IF addr(src(edge)) > addr(dst(edge))
    THEN SetSort(st, edge, "BACK_EDGE")
    ELSE st

\* len(items) == 1
ClassifyOne(items, st) ==
    LET edge == items[1] IN
    IF addr(src(edge)) >= addr(dst(edge))
    THEN SetSort(st, edge, "BACK_EDGE")
    ELSE st

\* edge_a, edge_b = items
Unpack2(items) ==
    IF Len(items) = TwoWay
    THEN [ok |-> TRUE, a |-> items[1], b |-> items[2]]
    ELSE [ok |-> FALSE]

\* A variant of ClassifyTwo whose second branch repeats the first one's
\* assignments.
ClassifyTwoNoSwap(sz, src_node, items, st) ==
    LET fallthrough == addr(src_node) + sz[src_node]
        edge_a == items[1]
        edge_b == items[2]
    IN  IF (addr(dst(edge_a)) = fallthrough) # (addr(dst(edge_b)) = fallthrough)
        THEN SetSort(SetSort(st, edge_a, "FALSE_BRANCH"), edge_b, "TRUE_BRANCH")
        ELSE st

\* A variant of ClassifyTwo without the second branch.
ClassifyTwoFirstOnly(sz, src_node, items, st) ==
    LET fallthrough == addr(src_node) + sz[src_node]
        edge_a == items[1]
        edge_b == items[2]
    IN  IF addr(dst(edge_a)) = fallthrough /\ addr(dst(edge_b)) # fallthrough
        THEN SetSort(SetSort(st, edge_a, "FALSE_BRANCH"), edge_b, "TRUE_BRANCH")
        ELSE st

\* A variant of ClassifyTwo whose last branch labels the edges by position.
ClassifyTwoDefault(sz, src_node, items, st) ==
    LET fallthrough == addr(src_node) + sz[src_node]
        edge_a == items[1]
        edge_b == items[2]
    IN  IF addr(dst(edge_a)) = fallthrough /\ addr(dst(edge_b)) # fallthrough
        THEN SetSort(SetSort(st, edge_a, "FALSE_BRANCH"), edge_b, "TRUE_BRANCH")
        ELSE SetSort(SetSort(st, edge_a, "TRUE_BRANCH"), edge_b, "FALSE_BRANCH")

\* len(items) == 2
ClassifyTwo(sz, src_node, items, st) ==
    LET fallthrough == addr(src_node) + sz[src_node]
        u == Unpack2(items)
    IN  IF ~u.ok THEN [st EXCEPT !.exc = "ValueError"]
        ELSE LET edge_a == u.a
                 edge_b == u.b
             IN  IF addr(dst(edge_a)) = fallthrough
                    /\ addr(dst(edge_b)) # fallthrough
                 THEN SetSort(SetSort(st, edge_a, "FALSE_BRANCH"),
                              edge_b, "TRUE_BRANCH")
                 ELSE IF addr(dst(edge_a)) # fallthrough
                         /\ addr(dst(edge_b)) = fallthrough
                 THEN SetSort(SetSort(st, edge_a, "TRUE_BRANCH"),
                              edge_b, "FALSE_BRANCH")
                 ELSE st

\* A variant of ClassifyGroup that takes every group of two or more edges
\* for a two-way branch.
ClassifyGroupAtLeastTwo(sz, src_node, items, st) ==
    IF Len(items) = 1 THEN ClassifyOne(items, st)
    ELSE IF Len(items) >= TwoWay THEN ClassifyTwo(sz, src_node, items, st)
    ELSE st

\* The body of the loop over edges_by_node.iteritems().
ClassifyGroup(sz, src_node, items, st) ==
    IF Len(items) = 1 THEN ClassifyOne(items, st)
    ELSE IF Len(items) = TwoWay THEN ClassifyTwo(sz, src_node, items, st)
    ELSE st

\* for src_node, items in edges_by_node.iteritems(): ..., in the order
\* `order` of the dictionary's keys; an exception ends the loop.
RECURSIVE ClassifyAll(_, _, _, _)
ClassifyAll(sz, order, edges_by_node, st) ==
    IF order = << >> \/ st.exc # "none" THEN st
    ELSE LET src_node == Head(order) IN
         ClassifyAll(sz, Tail(order), edges_by_node,
                     ClassifyGroup(sz, src_node, edges_by_node[src_node],
                                   [st EXCEPT !.steps = @ + 1]))

\* The orders in which a dictionary may yield the keys K.
KeyOrders(K) ==
    { o \in [1..Cardinality(K) -> K] : \A i, j \in DOMAIN o : i # j => o[i] # o[j] }

\* categorize_edges(disassembly, edges) with the dictionary yielding its keys
\* in `order`, from the sorts s0.
Categorize(sz, es, s0, order) ==
    LET edges_by_node == GroupEdges(es, EmptyGroups) IN
    ClassifyAll(sz, order, edges_by_node,
                [sort |-> s0, written |-> {}, exc |-> "none",
                 steps |-> Len(es)])

\* ------------------------------------------------------- _get_branch_instr
InsAddr == 0..MaxInsAddr

\* Decoded instructions, told apart by what they hold, not by their address.
Instruction == {"insn_a", "insn_b"}

\* The key orders of the dictionaries node.out_branches over instruction
\* addresses.
OutBranches == UNION { KeyOrders(K) : K \in SUBSET InsAddr }

\* The instruction indexes: partial maps from address to instruction.
Instructions == UNION { [D -> Instruction] : D \in SUBSET InsAddr }

\* l.warning(...), l.error(...)
Warning(what) == [level |-> "warning", what |-> what]

Error(what) == [level |-> "error", what |-> what]

\* disassembly['instructions'][ins_addr]: raises KeyError for a missing key.
Lookup(index, ins_addr) ==
    IF ins_addr \in DOMAIN index
    THEN [exc |-> "none", value |-> index[ins_addr]]
    ELSE [exc |-> "KeyError", value |-> None]

\* A variant of BranchInstr without the except clause.
BranchInstrNoExcept(out, index) ==
    LET warned == IF Len(out) > 1 THEN << Warning("more than one out_branches") >>
                  ELSE << >>
    IN  IF out = << >>
        THEN [ret |-> None, exc |-> "none",
              log |-> Append(warned, Error("no out branches"))]
        ELSE LET instr == Lookup(index, out[1]) IN
             [ret |-> instr.value, exc |-> instr.exc, log |-> warned]

\* A variant of BranchInstr that takes the last key instead of the first.
BranchInstrLastKey(out, index) ==
    LET warned == IF Len(out) > 1 THEN << Warning("more than one out_branches") >>
                  ELSE << >>
    IN  IF out = << >>
        THEN [ret |-> None, exc |-> "none",
              log |-> Append(warned, Error("no out branches"))]
        ELSE LET instr == Lookup(index, out[Len(out)]) IN
             IF instr.exc = "KeyError"
             THEN [ret |-> None, exc |-> "none",
                   log |-> Append(warned, Error("instruction not found"))]
             ELSE [ret |-> instr.value, exc |-> "none", log |-> warned]

\* _get_branch_instr(disassembly, node): the value returned, the exception
\* raised and the records logged.
BranchInstr(out, index) ==
    LET warned == IF Len(out) > 1 THEN << Warning("more than one out_branches") >>
                  ELSE << >>
    IN  IF out = << >>
        THEN [ret |-> None, exc |-> "none",
              log |-> Append(warned, Error("no out branches"))]
        ELSE LET ins_addr == out[1]
                 instr == Lookup(index, ins_addr)
             IN  IF instr.exc = "KeyError"
                 THEN [ret |-> None, exc |-> "none",
                       log |-> Append(warned, Error("instruction not found"))]
                 ELSE [ret |-> instr.value, exc |-> instr.exc, log |-> warned]

\* ----------------------------------------------------- QFunctionTableModel
NAME_COL == 0

ADDRESS_COL == 1

BINARY_COL == 2

SIZE_COL == 3

BLOCKS_COL == 4

Columns == {NAME_COL, ADDRESS_COL, BINARY_COL, SIZE_COL, BLOCKS_COL}

\* Qt.AscendingOrder, Qt.DescendingOrder
SortOrders == {"AscendingOrder", "DescendingOrder"}

\* Strings are sequences of characters; the characters in use, in byte order.
Chars == << "/", "0", "1", "a", "b", "f", "x", "z" >>

Ord(c) == CHOOSE i \in DOMAIN Chars : Chars[i] = c

\* An optional value: None, or Some(v).
NoneOpt == << >>

Some(v) == << v >>

\* The function objects: name, addr, binary (None, or the path of the binary),
\* size, and blocks = len(block_addrs_set).
Functions ==
    { [name |-> << "a", "b" >>, addr |-> 26,
       binary |-> Some(<< "/", "b", "/", "a" >>), size |-> 2, blocks |-> 1],
      [name |-> << "b" >>, addr |-> 11,
       binary |-> NoneOpt, size |-> 1, blocks |-> 2],
      [name |-> << "f", "1" >>, addr |-> 1,
       binary |-> Some(<< "/", "b", "/", "f" >>), size |-> 2, blocks |-> 1] }

\* The lists assigned to func_list: distinct functions in any order.
FuncLists ==
    UNION { { l \in [1..n -> Functions] :
                \A i, j \in 1..n : i # j => l[i] # l[j] } : n \in 0..MaxFuncs }

\* The texts of the filter box.
Keywords == { << >>, << "a" >>, << "1" >>, << "/", "b" >>, << "0", "x" >>,
              << "z" >> }

HexDigits == << "0", "1", "2", "3", "4", "5", "6", "7", "8", "9",
                "a", "b", "c", "d", "e", "f" >>

\* "%x" % n
RECURSIVE Hex(_)
Hex(n) ==
    IF n < 16 THEN << HexDigits[n + 1] >>
    ELSE Append(Hex(n \div 16), HexDigits[(n % 16) + 1])

\* "%#x" % n
HexAlt(n) == << "0", "x" >> \o Hex(n)

\* keyword in text
Contains(keyword, text) ==
    \E i \in 0..(Len(text) - Len(keyword)) :
        SubSeq(text, i + 1, i + Len(keyword)) = keyword

\* os.path.basename(path)
Basename(path) ==
    LET slashes == { i \in DOMAIN path : path[i] = "/" } IN
    IF slashes = {} THEN path
    ELSE SubSeq(path, (CHOOSE i \in slashes : \A j \in slashes : j <= i) + 1,
                Len(path))

\* QFunctionTableModel._get_binary_name
GetBinaryName(func) ==
    IF func.binary # NoneOpt THEN Basename(func.binary[1]) ELSE << >>

\* QFunctionTableModel._func_match_keyword
FuncMatchKeyword(func, keyword) ==
    IF Contains(keyword, func.name) THEN TRUE
    ELSE IF func.addr \in Int
            /\ (Contains(keyword, Hex(func.addr))
                \/ Contains(keyword, HexAlt(func.addr)))
    THEN TRUE
    ELSE IF func.binary # NoneOpt /\ Contains(keyword, func.binary[1]) THEN TRUE
    ELSE FALSE

\* a < b on strings
RECURSIVE StrLess(_, _)
StrLess(a, b) ==
    IF b = << >> THEN FALSE
    ELSE IF a = << >> THEN TRUE
    ELSE IF Ord(Head(a)) < Ord(Head(b)) THEN TRUE
    ELSE IF Ord(Head(a)) > Ord(Head(b)) THEN FALSE
    ELSE StrLess(Tail(a), Tail(b))

\* key(f) < key(g) for the key function sort() uses for `column`
KeyLess(column, f, g) ==
    IF column = NAME_COL THEN StrLess(f.name, g.name)
    ELSE IF column = ADDRESS_COL THEN f.addr < g.addr
    ELSE IF column = BINARY_COL THEN StrLess(GetBinaryName(f), GetBinaryName(g))
    ELSE IF column = SIZE_COL THEN f.size < g.size
    ELSE f.blocks < g.blocks

\* x goes before y in sorted(..., reverse=order == Qt.DescendingOrder)
GoesBefore(column, order, x, y) ==
    IF order = "DescendingOrder" THEN KeyLess(column, y, x)
    ELSE KeyLess(column, x, y)

\* sorted() is stable: x is put before the first element it goes before.
InsertSorted(column, order, res, x) ==
    LET later == { i \in DOMAIN res : GoesBefore(column, order, x, res[i]) } IN
    IF later = {} THEN Append(res, x)
    ELSE LET at == CHOOSE i \in later : \A j \in later : i <= j IN
         SubSeq(res, 1, at - 1) \o << x >> \o SubSeq(res, at, Len(res))

\* sorted(func_list, key=..., reverse=order == Qt.DescendingOrder)
RECURSIVE SortedFrom(_, _, _, _)
SortedFrom(column, order, res, rest) ==
    IF rest = << >> THEN res
    ELSE SortedFrom(column, order, InsertSorted(column, order, res, Head(rest)),
                    Tail(rest))

Sorted(column, order, list) == SortedFrom(column, order, << >>, list)

\* A variant of FuncListGet that tests the filtered list for truth.
FuncListGetTruthy(fl, raw) ==
    IF fl # NoneOpt /\ fl[1] # << >> THEN fl ELSE raw

\* The property func_list.
FuncListGet(fl, raw) ==
    IF fl # NoneOpt THEN fl ELSE raw

\* A variant of FuncListSet that keeps the filtered list.
FuncListSetKeepFilter(v) ==
    [_func_list |-> _func_list, _raw_func_list |-> Some(v)]

\* The setter of func_list.
FuncListSet(v) ==
    [_func_list |-> NoneOpt, _raw_func_list |-> Some(v)]

\* The record of a call on the model.
Call(op, keyword, column, order) ==
    [op |-> op, keyword |-> keyword, column |-> column, order |-> order]

\* ---------------------------------------------------------------- actions
\* No edge listed, no edge classified.
EdgesIdle ==
    /\ edges = << >>
    /\ sort = [e \in Edge |-> Unclassified]
    /\ prev = [e \in Edge |-> Unclassified]
    /\ written = {}
    /\ steps = 0

\* No branch lookup under way.
BranchIdle ==
    /\ out_branches = << >>
    /\ instructions = << >>

\* A table model that was never used.
TableIdle ==
    /\ _func_list = NoneOpt
    /\ _raw_func_list = NoneOpt
    /\ assigned = NoneOpt
    /\ kw = << >>
    /\ narrowed = NoneOpt
    /\ call = Call("init", << >>, NAME_COL, "AscendingOrder")
    /\ shown_before = NoneOpt
    /\ kw_before = << >>

Init ==
    /\ size \in NodeSizes
    /\ EdgesIdle
    /\ BranchIdle
    /\ TableIdle
    /\ phase = "building"
    /\ exc = "none"
    /\ ret = None
    /\ log = << >>

\* The owner of the graph lists one more edge.
AddEdge ==
    /\ Len(edges) < MaxLen
    /\ \E e \in Edge : edges' = Append(edges, e)
    /\ phase' = "building"
    /\ UNCHANGED <<size, sort, prev, written, steps, exc, ret, log>>
    /\ UNCHANGED <<branchVars, tableVars>>

CategorizeEdges ==
    \E order \in KeyOrders(Keys(GroupEdges(edges, EmptyGroups))) :
        LET st == Categorize(size, edges, sort, order) IN
        /\ sort' = st.sort
        /\ prev' = sort
        /\ written' = st.written
        /\ steps' = st.steps
        /\ exc' = st.exc
        /\ ret' = IF st.exc = "none" THEN None ELSE "no value"
        /\ log' = << >>
        /\ phase' = IF phase = "building" THEN "once" ELSE "twice"
        /\ UNCHANGED <<size, edges>>
        /\ UNCHANGED <<branchVars, tableVars>>

Next == AddEdge \/ CategorizeEdges

Spec == Init /\ [][Next]_vars

\* --- _get_branch_instr on the nodes and disassemblies of the bounds
InitBranch ==
    /\ size = [n \in Node |-> 1]
    /\ EdgesIdle
    /\ out_branches \in OutBranches
    /\ instructions \in Instructions
    /\ TableIdle
    /\ phase = "ready"
    /\ exc = "none"
    /\ ret = None
    /\ log = << >>

GetBranchInstr ==
    /\ phase = "ready"
    /\ LET r == BranchInstr(out_branches, instructions) IN
       /\ ret' = r.ret
       /\ exc' = r.exc
       /\ log' = r.log
    /\ phase' = "returned"
    /\ UNCHANGED <<edgeVars, branchVars, tableVars>>

NextBranch == GetBranchInstr

SpecBranch == InitBranch /\ [][NextBranch]_vars

\* --- QFunctionTableModel
\* QFunctionTableModel(func_list=None)
InitTable ==
    /\ size = [n \in Node |-> 1]
    /\ EdgesIdle
    /\ BranchIdle
    /\ _func_list = NoneOpt
    /\ _raw_func_list \in {NoneOpt} \cup { Some(l) : l \in FuncLists }
    /\ assigned = _raw_func_list
    /\ kw = << >>
    /\ narrowed = NoneOpt
    /\ call = Call("init", << >>, NAME_COL, "AscendingOrder")
    /\ shown_before = NoneOpt
    /\ kw_before = << >>
    /\ phase = "table"
    /\ exc = "none"
    /\ ret = None
    /\ log = << >>

\* What every call on the model records.
Began(c) ==
    /\ call' = c
    /\ shown_before' = FuncListGet(_func_list, _raw_func_list)
    /\ kw_before' = kw
    /\ UNCHANGED <<edgeVars, branchVars, phase, ret, log>>

\* model.func_list = v
AssignFuncList ==
    \E v \in FuncLists :
        LET r == FuncListSet(v) IN
        /\ _func_list' = r._func_list
        /\ _raw_func_list' = r._raw_func_list
        /\ assigned' = Some(v)
        /\ kw' = << >>
        /\ narrowed' = NoneOpt
        /\ exc' = "none"
        /\ Began(Call("assign", << >>, NAME_COL, "AscendingOrder"))

\* model.filter(keyword)
Filter ==
    \E keyword \in Keywords :
        /\ Began(Call("filter", keyword, NAME_COL, "AscendingOrder"))
        /\ IF keyword = << >>
           THEN /\ _func_list' = NoneOpt
                /\ kw' = << >>
                /\ exc' = "none"
                /\ UNCHANGED <<_raw_func_list, assigned, narrowed>>
           ELSE IF _raw_func_list = NoneOpt
           THEN \* iterating None
                /\ exc' = "TypeError"
                /\ UNCHANGED <<_func_list, _raw_func_list, assigned, kw, narrowed>>
           ELSE /\ _func_list' =
                     Some(SelectSeq(_raw_func_list[1],
                                    LAMBDA func : FuncMatchKeyword(func, keyword)))
                /\ kw' = keyword
                /\ exc' = "none"
                /\ UNCHANGED <<_raw_func_list, assigned, narrowed>>

\* model.sort(column, order)
Sort ==
    \E column \in Columns, order \in SortOrders :
        LET shown == FuncListGet(_func_list, _raw_func_list) IN
        /\ Began(Call("sort", << >>, column, order))
        /\ IF shown = NoneOpt
           THEN \* sorted(None)
                /\ exc' = "TypeError"
                /\ UNCHANGED <<_func_list, _raw_func_list, assigned, kw, narrowed>>
           ELSE LET r == FuncListSet(Sorted(column, order, shown[1])) IN
                /\ _func_list' = r._func_list
                /\ _raw_func_list' = r._raw_func_list
                /\ kw' = << >>
                /\ narrowed' = IF kw # << >> THEN Some(Range(shown[1]))
                               ELSE narrowed
                /\ exc' = "none"
                /\ UNCHANGED assigned

NextTable == AssignFuncList \/ Filter \/ Sort

SpecTable == InitTable /\ [][NextTable]_vars

\* =========================================================================
\* Properties of categorize_edges, checked under Spec
\* =========================================================================
\* The last action was a call of categorize_edges on `edges`.
Called == phase # "building"

\* The source nodes of the listed edges.
Sources == { src(edges[i]) : i \in DOMAIN edges }

\* The listed edges that leave n, in list order.
GroupOf(n) == SelectSeq(edges, LAMBDA e : src(e) = n)

Fallthrough(n) == addr(n) + size[n]

\* The members of the group G that lead to the fall-through address of n.
Matches(n, G) == { i \in DOMAIN G : addr(dst(G[i])) = Fallthrough(n) }

\* A rule of the classifier assigns a sort to e, an edge of the group G of n.
RuleApplies(n, G, e) ==
    \/ Len(G) = 1 /\ addr(dst(e)) <= addr(n)
    \/ Len(G) = 2 /\ Cardinality(Matches(n, G)) = 1

\* The sort that rule assigns.
RuleSort(n, G, e) ==
    IF Len(G) = 1 THEN "BACK_EDGE"
    ELSE IF addr(dst(e)) = Fallthrough(n) THEN "FALSE_BRANCH"
    ELSE "TRUE_BRANCH"

\* The orderings of the sequence s.
Orderings(s) ==
    { [i \in DOMAIN s |-> s[f[i]]] :
        f \in { g \in [DOMAIN s -> DOMAIN s] :
                  \A i, j \in DOMAIN s : i # j => g[i] # g[j] } }

\* C1: after a call, in every group of exactly two edges of which exactly one
\* leads to addr + size of the source node, that edge is FALSE_BRANCH and the
\* other one TRUE_BRANCH, in either list order.
C1_TwoWayBranch ==
    Called =>
      \A n \in Sources :
        LET G == GroupOf(n) IN
        (Len(G) = 2 /\ Cardinality(Matches(n, G)) = 1) =>
          \A i \in DOMAIN G :
            sort[G[i]] = IF i \in Matches(n, G) THEN "FALSE_BRANCH"
                         ELSE "TRUE_BRANCH"

\* A call classified a two-way branch whose fall-through edge is listed second.
C1_Witness ==
    /\ Called
    /\ \E n \in Sources :
         LET G == GroupOf(n) IN
         /\ Len(G) = 2
         /\ Matches(n, G) = {2}
         /\ sort[G[2]] = "FALSE_BRANCH"
         /\ sort[G[1]] = "TRUE_BRANCH"

\* C2: after a call, the only edge E of a source node N was assigned
\* BACK_EDGE exactly when E.dst.addr <= N.addr (a self-loop included); when
\* E.dst.addr > N.addr the call did not assign E.sort, which is as before.
C2_BackEdge ==
    Called =>
      \A n \in Sources :
        LET G == GroupOf(n) IN
        Len(G) = 1 =>
          LET E == G[1] IN
          /\ (E \in written /\ sort[E] = "BACK_EDGE") <=> (addr(dst(E)) <= addr(n))
          /\ addr(dst(E)) > addr(n) => (E \notin written /\ sort[E] = prev[E])

\* A call marked a single self-loop as a back edge.
C2_Witness ==
    /\ Called
    /\ \E n \in Sources :
         /\ GroupOf(n) = << <<n, n>> >>
         /\ <<n, n>> \in written
         /\ sort[<<n, n>>] = "BACK_EDGE"

\* C3: a call assigns no sort in a group of two edges of which none or both
\* lead to addr + size, nor in a group of three or more edges: every such edge
\* has the sort it had before the call.
C3_NoRuleNoWrite ==
    Called =>
      \A n \in Sources :
        LET G == GroupOf(n) IN
        ((Len(G) = 2 /\ Cardinality(Matches(n, G)) # 1) \/ Len(G) >= 3) =>
          \A e \in Range(G) : e \notin written /\ sort[e] = prev[e]

\* A call went over a group of three edges, one of them classified by an
\* earlier call, and over a two-edge group without a fall-through edge.
C3_Witness ==
    /\ Called
    /\ \E n \in Sources :
         /\ Len(GroupOf(n)) >= 3
         /\ \E e \in Range(GroupOf(n)) : sort[e] # Unclassified

\* A call went over a two-edge group none of whose edges falls through.
C3_WitnessTwo ==
    /\ Called
    /\ \E n \in Sources :
         /\ Len(GroupOf(n)) = 2
         /\ Matches(n, GroupOf(n)) = {}

\* C4 as claimed: after a call every listed edge has the sort the rules
\* prescribe, and is unclassified where no rule applies, whatever sort it had
\* before the call.
C4_PriorSortsIrrelevant ==
    Called =>
      \A n \in Sources :
        LET G == GroupOf(n) IN
        \A e \in Range(G) :
          sort[e] = IF RuleApplies(n, G, e) THEN RuleSort(n, G, e)
                    ELSE Unclassified

\* C4 as amended: after a call every listed edge a rule applies to has the sort
\* that rule prescribes, whatever sort it had before; every other listed edge
\* has the sort it had before the call.
C4_PriorSortsKept ==
    Called =>
      \A n \in Sources :
        LET G == GroupOf(n) IN
        \A e \in Range(G) :
          sort[e] = IF RuleApplies(n, G, e) THEN RuleSort(n, G, e)
                    ELSE prev[e]

\* A call replaced the sort an earlier call had given an edge.
C4_Witness ==
    /\ Called
    /\ \E n \in Sources :
         \E e \in Range(GroupOf(n)) :
           /\ RuleApplies(n, GroupOf(n), e)
           /\ prev[e] \notin {Unclassified, sort[e]}

\* C5: a second call in a row on the same list leaves every sort as the first
\* call left it.
C5_Idempotent == phase = "twice" => sort = prev

\* A second call in a row assigned sorts again.
C5_Witness == phase = "twice" /\ Cardinality(written) >= 2

\* C6: from the sorts the call started from, every ordering of the edge list
\* and every order of the dictionary's keys gives the sorts the call gave.
C6_OrderIndependent ==
    Called =>
      \A p \in Orderings(edges) :
        \A o \in KeyOrders(Sources) :
          Categorize(size, p, prev, o).sort = sort

\* A call classified a two-way branch listed beside another group.
C6_Witness ==
    /\ Called
    /\ Cardinality(Sources) = 2
    /\ \E n \in Sources :
         /\ Len(GroupOf(n)) = 2
         /\ Cardinality(Matches(n, GroupOf(n))) = 1
         /\ \A e \in Range(GroupOf(n)) : e \in written

\* C7: the sorts a call gives the edges leaving N are the sorts a call on the
\* edges leaving N alone gives them.
C7_GroupIndependent ==
    Called =>
      \A n \in Sources :
        LET G == GroupOf(n) IN
        \A o \in KeyOrders(Keys(GroupEdges(G, EmptyGroups))) :
          \A e \in Range(G) :
            Categorize(size, G, prev, o).sort[e] = sort[e]

\* A call classified the only edge of one node beside a group of another node.
C7_Witness ==
    /\ Called
    /\ \E n, m \in Sources :
         /\ n # m
         /\ Len(GroupOf(n)) = 1
         /\ Len(GroupOf(m)) = 2
         /\ GroupOf(n)[1] \in written

\* C8: a call is possible on every list; it raises nothing, returns None, logs
\* nothing and runs one grouping step per edge and at most one classifying
\* step per edge.
C8_NeverRaises ==
    /\ ENABLED CategorizeEdges
    /\ Called =>
         /\ exc = "none"
         /\ ret = None
         /\ log = << >>
         /\ steps = Len(edges) + Cardinality(Sources)

\* A call returned from a list holding the same edge three times.
C8_Witness ==
    /\ Called
    /\ Len(edges) = 3
    /\ edges[1] = edges[2] /\ edges[2] = edges[3]
    /\ exc = "none"

\* A call returned from the empty list.
C8_WitnessEmpty == Called /\ edges = << >> /\ exc = "none"

\* =========================================================================
\* Properties of _get_branch_instr, checked under SpecBranch
\* =========================================================================
Levels(records) == { records[i].level : i \in DOMAIN records }

\* C9: the lookup raises nothing; it returns None exactly when the node has no
\* out-branch or the first out-branch address is not in the instruction index,
\* and then an error is logged; otherwise it returns the instruction stored at
\* the first out-branch address, a warning logged first when the node has more
\* than one out-branch.
C9_BranchInstr ==
    phase = "returned" =>
      LET absent == \/ out_branches = << >>
                    \/ out_branches[1] \notin DOMAIN instructions
      IN  /\ exc = "none"
          /\ (ret = None) <=> absent
          /\ absent => (log # << >> /\ log[Len(log)].level = "error")
          /\ ~absent =>
               /\ ret = instructions[out_branches[1]]
               /\ Len(out_branches) > 1 =>
                    (log # << >> /\ log[1].level = "warning")

\* The lookup returned None for a node with several out-branches whose first
\* address is not in the index while another one is.
C9_Witness ==
    /\ phase = "returned"
    /\ Len(out_branches) > 1
    /\ out_branches[1] \notin DOMAIN instructions
    /\ out_branches[2] \in DOMAIN instructions
    /\ ret = None
    /\ Levels(log) = {"warning", "error"}

\* The lookup returned the first out-branch's instruction, another out-branch
\* holding a different one.
C9_WitnessFound ==
    /\ phase = "returned"
    /\ Len(out_branches) > 1
    /\ out_branches[2] \in DOMAIN instructions
    /\ ret # None
    /\ ret # instructions[out_branches[2]]

\* =========================================================================
\* Properties of QFunctionTableModel, checked under SpecTable
\* =========================================================================
\* The list the table shows: the property func_list.
Visible == FuncListGet(_func_list, _raw_func_list)

\* l is ordered as sort(column, order) orders: no element goes before an
\* earlier one.
Ordered(column, order, l) ==
    \A i, j \in DOMAIN l : i < j => ~GoesBefore(column, order, l[j], l[i])

\* C10: the table shows the filtered raw list while a non-empty filter is in
\* force and the raw list otherwise; a sort under a non-empty filter makes the
\* sorted filtered list the raw list and clears the filter, and from then on an
\* empty filter shows those functions only.
C10_VisibleList ==
    /\ kw # << >> =>
         /\ _raw_func_list # NoneOpt
         /\ Visible = Some(SelectSeq(_raw_func_list[1],
                                     LAMBDA func : FuncMatchKeyword(func, kw)))
    /\ kw = << >> => (_func_list = NoneOpt /\ Visible = _raw_func_list)
    /\ (call.op = "sort" /\ exc = "none" /\ kw_before # << >>) =>
         /\ kw = << >>
         /\ _func_list = NoneOpt
         /\ Len(_raw_func_list[1]) = Len(shown_before[1])
         /\ Range(_raw_func_list[1]) = Range(shown_before[1])
         /\ Ordered(call.column, call.order, _raw_func_list[1])
         /\ narrowed = Some(Range(shown_before[1]))
    /\ (kw = << >> /\ narrowed # NoneOpt) => Range(Visible[1]) = narrowed[1]
    /\ (kw = << >> /\ narrowed = NoneOpt /\ assigned # NoneOpt) =>
         /\ Len(Visible[1]) = Len(assigned[1])
         /\ Range(Visible[1]) = Range(assigned[1])

\* After a sort under a filter, an empty filter shows fewer functions than the
\* list last assigned holds.
C10_Witness ==
    /\ call.op = "filter" /\ call.keyword = << >> /\ exc = "none"
    /\ narrowed # NoneOpt
    /\ assigned # NoneOpt
    /\ Len(Visible[1]) < Len(assigned[1])
    /\ Len(Visible[1]) > 0

\* A filter that matches no function shows the empty list.
C10_WitnessEmpty ==
    /\ kw # << >>
    /\ Visible = Some(<< >>)
    /\ _raw_func_list # Some(<< >>)

=============================================================================
